---------------------------- MODULE Spec2Model ----------------------------
(***************************************************************************)
(* Model of bevy-aspect-ratio-mask (src/src/lib.rs): the resize handler    *)
(* aspect_ratio_hud_scaler, the entities it writes (UiScale, the HUD node  *)
(* and the four mask nodes) and the Bevy schedule that runs it.            *)
(*                                                                         *)
(* Every number of the program is a Rust f32.  The model keeps the type:   *)
(* a value is an IEEE-754 binary32 datum and each arithmetic operator      *)
(* rounds to nearest, ties to even, as the Rust operators do.              *)
(***************************************************************************)
EXTENDS Integers, Sequences, FiniteSets, TLC

(***************************************************************************)
(* binary32: 24 significant bits, exponents of the unit in the last place  *)
(* from -149 (subnormals) to 104 (largest finite number).                  *)
(***************************************************************************)
MantBits == 24
EMin == -149
EMax == 104

TwoP(k) == 2 ^ k

\* A finite number is (-1)^s * m * 2^e.  It is canonical when
\*   m = 0 and e = EMin (a zero), or 2^23 <= m < 2^24 (normal), or
\*   m < 2^23 and e = EMin (subnormal).
Num(s, m, e) == [k |-> "num", s |-> s, m |-> m, e |-> e]
Inf(s) == [k |-> "inf", s |-> s, m |-> 0, e |-> 0]
NaN == [k |-> "nan", s |-> 0, m |-> 0, e |-> 0]
Zero(s) == Num(s, 0, EMin)

IsNaN(a) == a.k = "nan"
IsInf(a) == a.k = "inf"
IsNum(a) == a.k = "num"
IsZero(a) == a.k = "num" /\ a.m = 0

RECURSIVE BitLen(_)
BitLen(n) == IF n = 0 THEN 0 ELSE 1 + BitLen(n \div 2)

\* m * 2^e with m of 24 bits (or fewer at EMin): infinite past EMax
Pack(s, m, e) == IF e > EMax THEN Inf(s) ELSE Num(s, m, e)

\* the rounded significand q1 at exponent e: rounding up may carry to 2^24
Carry(s, q1, e) ==
  IF q1 = 0 THEN Zero(s)
  ELSE IF q1 = TwoP(MantBits) THEN Pack(s, TwoP(MantBits - 1), e + 1)
  ELSE Pack(s, q1, e)

\* round to nearest, ties to even: q the kept bits, rem the dropped bits,
\* half the weight of the first dropped bit
RoundNearest(s, q, rem, half, sticky, e) ==
  IF rem > half \/ (rem = half /\ (sticky \/ q % 2 = 1))
  THEN Carry(s, q + 1, e)
  ELSE Carry(s, q, e)

\* drop the sh low bits of n (sh > 0)
DropBits(s, n, e, sticky, sh) ==
  IF sh > 30
  THEN RoundNearest(s, 0, n, TwoP(30), sticky, e + sh)
  ELSE RoundNearest(s, n \div TwoP(sh), n % TwoP(sh), TwoP(sh - 1), sticky, e + sh)

\* no bit is dropped: shift n left by up bits
ShiftUp(s, n, e, up) == Pack(s, n * TwoP(up), e - up)

\* the number of low bits of an n of len bits that do not fit at exponent e
\* (negative or zero: none)
DroppedBits(len, e) ==
  IF e + (IF len > MantBits THEN len - MantBits ELSE 0) < EMin THEN EMin - e
  ELSE IF len > MantBits THEN len - MantBits
  ELSE 0

RoundLen(s, n, e, sticky, len, sh) ==
  IF sh <= 0
  THEN ShiftUp(s, n, e, IF MantBits - len < e - EMin THEN MantBits - len ELSE e - EMin)
  ELSE DropBits(s, n, e, sticky, sh)

\* Round the exact value (-1)^s * (n + f) * 2^e to binary32, where n < 2^30
\* holds the leading bits and sticky tells whether the discarded fraction f
\* (0 <= f < 1) is non-zero.  Round to nearest, ties to even.
RoundPack(s, n, e, sticky) ==
  IF n = 0 THEN Zero(s)
  ELSE RoundLen(s, n, e, sticky, BitLen(n), DroppedBits(BitLen(n), e))

\* An integer 0 <= n < 2^24 as an f32 (exact).
FromNat(n) == RoundPack(0, n, 0, FALSE)

\* The significand of a non-zero finite number shifted to 24 bits, and the
\* exponent that goes with it (a subnormal has fewer bits).
NormM(a) == a.m * TwoP(MantBits - BitLen(a.m))
NormE(a) == a.e - (MantBits - BitLen(a.m))

FNeg(a) == IF IsNaN(a) THEN NaN ELSE [a EXCEPT !.s = 1 - a.s]

XorSign(a, b) == (a.s + b.s) % 2

\* Long division of two 24-bit significands: <<quotient, remainder>> of
\* (q * 2^steps + ...) / d, one bit per step.
RECURSIVE DivBits(_, _, _, _)
DivBits(q, r, d, steps) ==
  IF steps = 0 THEN <<q, r>>
  ELSE IF 2 * r >= d THEN DivBits(2 * q + 1, 2 * r - d, d, steps - 1)
  ELSE DivBits(2 * q, 2 * r, d, steps - 1)

DivGuard == 26

\* the quotient qr[1] with its remainder qr[2], at exponent e
DivRound(s, qr, e) == RoundPack(s, qr[1], e, qr[2] # 0)

\* ma / mb for 24-bit significands: the integer quotient (0 or 1) and
\* DivGuard more bits
DivNorm(s, ma, mb, e) ==
  DivRound(s, DivBits(ma \div mb, ma % mb, mb, DivGuard), e)

\* a / b
FDiv(a, b) ==
  IF IsNaN(a) \/ IsNaN(b) THEN NaN
  ELSE IF IsInf(a) THEN (IF IsInf(b) THEN NaN ELSE Inf(XorSign(a, b)))
  ELSE IF IsInf(b) THEN Zero(XorSign(a, b))
  ELSE IF IsZero(b) THEN (IF IsZero(a) THEN NaN ELSE Inf(XorSign(a, b)))
  ELSE IF IsZero(a) THEN Zero(XorSign(a, b))
  ELSE DivNorm(XorSign(a, b), NormM(a), NormM(b), NormE(a) - NormE(b) - DivGuard)

HalfBits == 12

\* the 48-bit product is high * 2^24 + low: keep high and two more bits
MulRound(s, high, low, e) ==
  RoundPack(s, high * 4 + low \div TwoP(2 * HalfBits - 2), e,
            low % TwoP(2 * HalfBits - 2) # 0)

MulCarry(s, high, lowSum, e) ==
  MulRound(s, high + lowSum \div TwoP(2 * HalfBits), lowSum % TwoP(2 * HalfBits), e)

\* hh * 2^24 + mid * 2^12 + ll
MulSum(s, hh, mid, ll, e) ==
  MulCarry(s, hh + mid \div TwoP(HalfBits), (mid % TwoP(HalfBits)) * TwoP(HalfBits) + ll, e)

\* (ah * 2^12 + al) * (bh * 2^12 + bl), in products below 2^31
MulHalves(s, ah, al, bh, bl, e) ==
  MulSum(s, ah * bh, ah * bl + al * bh, al * bl, e)

MulNorm(s, ma, mb, e) ==
  MulHalves(s, ma \div TwoP(HalfBits), ma % TwoP(HalfBits),
            mb \div TwoP(HalfBits), mb % TwoP(HalfBits), e)

\* a * b
FMul(a, b) ==
  IF IsNaN(a) \/ IsNaN(b) THEN NaN
  ELSE IF IsInf(a) \/ IsInf(b)
    THEN (IF IsZero(a) \/ IsZero(b) THEN NaN ELSE Inf(XorSign(a, b)))
  ELSE IF IsZero(a) \/ IsZero(b) THEN Zero(XorSign(a, b))
  ELSE MulNorm(XorSign(a, b), NormM(a), NormM(b), NormE(a) + NormE(b) + 2 * HalfBits - 2)

\* |a| < |b| for finite canonical numbers
MagLt(a, b) == a.e < b.e \/ (a.e = b.e /\ a.m < b.m)

AddGuard == 3

\* big and small at the same exponent e; lost tells that small lost bits
AddAligned(sa, sb, big, small, lost, e) ==
  IF sa = sb
  THEN RoundPack(sa, big + small, e, lost)
  ELSE IF big = small /\ ~lost THEN Zero(0)
  ELSE IF lost
    THEN RoundPack(sa, big - small - 1, e, TRUE)
    ELSE RoundPack(sa, big - small, e, FALSE)

\* full shifted right by d bits, and whether a non-zero bit was shifted out
ShiftedRight(full, d) == IF d > 30 THEN 0 ELSE full \div TwoP(d)
ShiftedOut(full, d) == IF d > 30 THEN TRUE ELSE full % TwoP(d) # 0

\* a + b for finite non-zero a, b with |a| >= |b|: the larger significand gets
\* three guard bits, the smaller is shifted right to the same exponent and the
\* bits shifted out are kept as a sticky bit.
AddOrdered(a, b) ==
  AddAligned(a.s, b.s, a.m * TwoP(AddGuard),
             ShiftedRight(b.m * TwoP(AddGuard), a.e - b.e),
             ShiftedOut(b.m * TwoP(AddGuard), a.e - b.e),
             a.e - AddGuard)

\* a + b
FAdd(a, b) ==
  IF IsNaN(a) \/ IsNaN(b) THEN NaN
  ELSE IF IsInf(a) THEN (IF IsInf(b) /\ a.s # b.s THEN NaN ELSE a)
  ELSE IF IsInf(b) THEN b
  ELSE IF IsZero(a) /\ IsZero(b) THEN Zero(IF a.s = 1 /\ b.s = 1 THEN 1 ELSE 0)
  ELSE IF IsZero(a) THEN b
  ELSE IF IsZero(b) THEN a
  ELSE IF MagLt(a, b) THEN AddOrdered(b, a)
  ELSE AddOrdered(a, b)

\* a - b
FSub(a, b) == FAdd(a, FNeg(b))

\* a < b, a <= b, a > b, a == b as the Rust operators on f32 decide them
\* (false whenever an operand is NaN; -0.0 == 0.0).
FLt(a, b) ==
  IF IsNaN(a) \/ IsNaN(b) THEN FALSE
  ELSE IF IsZero(a) /\ IsZero(b) THEN FALSE
  ELSE IF a.s # b.s THEN a.s = 1
  ELSE IF IsInf(a) THEN (a.s = 1 /\ ~IsInf(b))
  ELSE IF IsInf(b) THEN b.s = 0
  ELSE IF a.s = 0 THEN MagLt(a, b)
  ELSE MagLt(b, a)

FEq(a, b) ==
  IF IsNaN(a) \/ IsNaN(b) THEN FALSE
  ELSE IF IsZero(a) /\ IsZero(b) THEN TRUE
  ELSE a = b

FLe(a, b) == FLt(a, b) \/ FEq(a, b)
FGt(a, b) == FLt(b, a)
FGe(a, b) == FLe(b, a)

\* f32::min: the smaller operand; the other operand when one is NaN.
FMin(a, b) ==
  IF IsNaN(a) THEN b
  ELSE IF IsNaN(b) THEN a
  ELSE IF FLt(b, a) THEN b
  ELSE a

(***************************************************************************)
(* Layout values (bevy Val): Auto, Percent(100.0) and Px(f32).  A Px value *)
(* is the f32 itself; the other two are tagged records of the same shape.  *)
(***************************************************************************)
ValAuto == [k |-> "auto", s |-> 0, m |-> 0, e |-> 0]
ValPercent100 == [k |-> "percent", s |-> 0, m |-> 100, e |-> 0]
IsPx(v) == v.k \in {"num", "inf", "nan"}

Sides == {"Left", "Right", "Top", "Bottom"}

Two == FromNat(2)
One == FromNat(1)
PxZero == Zero(0)

(***************************************************************************)
(* Inputs.  A Resolution is configured once, with any positive f32 width   *)
(* and height; the window takes any size the windowing layer reports, a    *)
(* zero width or height (a minimized window) included.                     *)
(***************************************************************************)
MaxSurface == 4
MaxPending == 2

Vec2(p) == [x |-> FromNat(p[1]), y |-> FromNat(p[2])]
MakeResolution(p) == [width |-> FromNat(p[1]), height |-> FromNat(p[2])]

\* Resolution::default()
DefaultResolution == MakeResolution(<<960, 540>>)
\* RESOLUTION_WIDTH x RESOLUTION_HEIGHT of examples/simple.rs
ExampleResolution == MakeResolution(<<600, 480>>)
\* a square resolution, and 16:9 at 480 lines (853.33 x 480)
SquareResolution == MakeResolution(<<500, 500>>)
WideResolution == [width |-> FDiv(FromNat(2560), FromNat(3)), height |-> FromNat(480)]

Resolutions == {DefaultResolution, ExampleResolution, SquareResolution, WideResolution}

ScenarioSurfaces ==
  {<<1920, 1080>>, <<1280, 540>>, <<960, 270>>,  \* spec scenarios A, B, C
   <<780, 624>>,                                  \* examples/simple.rs: 600*1.3 x 480*1.3
   <<887, 497>>, <<1024, 768>>}

Surfaces ==
  {Vec2(p) : p \in ((0..MaxSurface) \X (0..MaxSurface)) \cup ScenarioSurfaces}

VARIABLES
  resolution,  \* Res<Resolution>: [width, height], f32
  window,      \* the single Window's resolution.size(): [x, y], f32
  pending,     \* WindowResized events sent since the Update schedule last ran
  ui_scale,    \* ResMut<UiScale>: f32
  hud,         \* the AspectRatioHud node: its margin.left and margin.top
  masks        \* the four AspectRatioMaskSide nodes: width, height, left, top

vars == <<resolution, window, pending, ui_scale, hud, masks>>

(***************************************************************************)
(* setup (PreStartup): one HUD node of the resolution's size and the four  *)
(* mask nodes of aspect_ratio_mask_setup.  UiScale starts at 1.0.          *)
(***************************************************************************)
aspect_ratio_hud ==
  [margin_left |-> PxZero, margin_top |-> PxZero]

aspect_ratio_mask_setup ==
  [side \in Sides |->
     IF side \in {"Left", "Right"}
     THEN [width |-> ValAuto, height |-> ValPercent100, left |-> PxZero, top |-> ValAuto]
     ELSE [width |-> ValPercent100, height |-> ValAuto, left |-> ValAuto, top |-> PxZero]]

Init ==
  /\ resolution \in Resolutions
  /\ window \in Surfaces
  /\ pending = 0
  /\ ui_scale = One
  /\ hud = aspect_ratio_hud
  /\ masks = aspect_ratio_mask_setup

(***************************************************************************)
(* The arithmetic of aspect_ratio_hud_scaler.                              *)
(***************************************************************************)
scale_x(res, sz) == FDiv(sz.x, res.width)
scale_y(res, sz) == FDiv(sz.y, res.height)

\* the two scales exchanged
normalized_width_swapped(res, sx, sy) == FDiv(FMul(res.width, sy), sx)
normalized_width(res, sx, sy) == FDiv(FMul(res.width, sx), sy)
\* the division by scale_x left out
normalized_height_unscaled(res, sx, sy) == FMul(res.height, sy)
normalized_height(res, sx, sy) == FDiv(FMul(res.height, sy), sx)

\* the larger operand instead of the smaller
min_scale_max(sx, sy) == IF FLt(sx, sy) THEN sy ELSE sx
min_scale(sx, sy) == FMin(sx, sy)

\* the operands exchanged
dx_reversed(nw, res) == FSub(res.width, nw)
dx(nw, res) == FSub(nw, res.width)
dy(nh, res) == FSub(nh, res.height)

\* the whole of d instead of its half
MarginFull(s, ms, d, old) ==
  IF FGt(s, ms) THEN d
  ELSE IF FLe(s, ms) THEN PxZero
  ELSE old

\* node.margin.left after lines 190-194: s is scale_x, d is dx (old stays
\* when neither branch is taken).  node.margin.top after lines 197-201 is the
\* same with scale_y and dy.
Margin(s, ms, d, old) ==
  IF FGt(s, ms) THEN FDiv(d, Two)
  ELSE IF FLe(s, ms) THEN PxZero
  ELSE old

\* the Right and Bottom masks placed at the normalized length
MaskNodeAtLength(side, node, ddx, ddy, nw, nh) ==
  CASE side = "Left" ->
         [node EXCEPT !.width = ddx, !.left = FDiv(FNeg(ddx), Two)]
    [] side = "Right" ->
         [node EXCEPT !.width = ddx, !.left = nw]
    [] side = "Top" ->
         [node EXCEPT !.height = ddy, !.top = FDiv(FNeg(ddy), Two)]
    [] side = "Bottom" ->
         [node EXCEPT !.height = ddy, !.top = nh]

\* one mask node after the match of lines 204-221
MaskNode(side, node, ddx, ddy, nw, nh) ==
  CASE side = "Left" ->
         [node EXCEPT !.width = ddx, !.left = FDiv(FNeg(ddx), Two)]
    [] side = "Right" ->
         [node EXCEPT !.width = ddx, !.left = FSub(nw, FDiv(ddx, Two))]
    [] side = "Top" ->
         [node EXCEPT !.height = ddy, !.top = FDiv(FNeg(ddy), Two)]
    [] side = "Bottom" ->
         [node EXCEPT !.height = ddy, !.top = FSub(nh, FDiv(ddy, Two))]

\* What the system writes once scale_x .. dy are computed: UiScale, the HUD
\* node's margins, the masks.
Writes(node, nodes, sx, sy, nw, nh, ms, ddx, ddy) ==
  [hud |-> [margin_left |-> Margin(sx, ms, ddx, node.margin_left),
            margin_top |-> Margin(sy, ms, ddy, node.margin_top)],
   masks |-> [side \in Sides |-> MaskNode(side, nodes[side], ddx, ddy, nw, nh)],
   ui_scale |-> ms]

\* lines 183-196: min_scale, dx and dy from the normalized lengths
Differences(res, node, nodes, sx, sy, nw, nh) ==
  Writes(node, nodes, sx, sy, nw, nh, min_scale(sx, sy), dx(nw, res), dy(nh, res))

\* lines 180-181: the normalized lengths from the two scales
Normalized(res, node, nodes, sx, sy) ==
  Differences(res, node, nodes, sx, sy,
              normalized_width(res, sx, sy), normalized_height(res, sx, sy))

\* The system, given the window size sz, the resolution res, the HUD node and
\* the mask nodes.
aspect_ratio_hud_scaler(sz, res, node, nodes) ==
  Normalized(res, node, nodes, scale_x(res, sz), scale_y(res, sz))

\* windows.single().unwrap().resolution.size(): the window's size when the
\* system runs, not the size an event carried.
SurfaceSize == window

\* runs only when exactly one event arrived
on_single_event(n) == n = 1

\* run_if(on_event::<WindowResized>): some event arrived since the last run.
on_event(n) == n > 0

(***************************************************************************)
(* The windowing layer resizes the window and sends WindowResized.         *)
(***************************************************************************)
WindowResized(sz) ==
  /\ pending < MaxPending
  /\ window' = sz
  /\ pending' = pending + 1
  /\ UNCHANGED <<resolution, ui_scale, hud, masks>>

(***************************************************************************)
(* One pass of the Update schedule: when the run condition holds the       *)
(* system runs once, whatever the number of events; the events of the      *)
(* frame are consumed either way.  The HUD node spawned by setup is the    *)
(* only AspectRatioHud, so single_mut() succeeds.                          *)
(***************************************************************************)
Update ==
  /\ IF on_event(pending)
     THEN \E w \in {aspect_ratio_hud_scaler(SurfaceSize, resolution, hud, masks)} :
            /\ hud' = w.hud
            /\ masks' = w.masks
            /\ ui_scale' = w.ui_scale
     ELSE UNCHANGED <<hud, masks, ui_scale>>
  /\ pending' = 0
  /\ UNCHANGED <<resolution, window>>

Next ==
  \/ \E sz \in Surfaces : WindowResized(sz)
  \/ Update

Spec == Init /\ [][Next]_vars

(***************************************************************************)
(* Vocabulary of the properties.                                           *)
(***************************************************************************)
vw == resolution.width
vh == resolution.height
SurfaceW == window.x
SurfaceH == window.y
Left == masks["Left"]
Right == masks["Right"]
Top == masks["Top"]
Bottom == masks["Bottom"]

\* the system has run and no resize has arrived since
Handled == IsPx(Left.width)
Settled == Handled /\ pending = 0
\* a valid surface: strictly positive width and height
ValidSurface == FGt(SurfaceW, PxZero) /\ FGt(SurfaceH, PxZero)

FAbs(a) == IF IsNaN(a) THEN NaN ELSE [a EXCEPT !.s = 0]

\* a <= b up to rounding: a exceeds b by at most 2^-20 of |b|, the rounding of
\* a dozen f32 operations (each is within 2^-24 of its exact result)
RoundingOf(b) == FMul(FAbs(b), Num(0, TwoP(MantBits - 1), -43))
LeUpToRounding(a, b) == FLe(FSub(a, b), RoundingOf(b))
\* a = b up to rounding, relative to the magnitude ref
EqUpToRounding(a, b, ref) == FLe(FAbs(FSub(a, b)), RoundingOf(ref))

(***************************************************************************)
(* C1.  The applied UI scale is min(W/vw, H/vh), so the scaled virtual     *)
(* region vw*scale by vh*scale never exceeds the surface on either axis.   *)
(***************************************************************************)
ScaleIsMin ==
  ui_scale = FMin(FDiv(SurfaceW, vw), FDiv(SurfaceH, vh))

\* C1 as stated: the scale is the minimum and the scaled region fits exactly.
C1_ScaleIsMinAndFits ==
  (Settled /\ ValidSurface) =>
    /\ ScaleIsMin
    /\ FLe(FMul(vw, ui_scale), SurfaceW)
    /\ FLe(FMul(vh, ui_scale), SurfaceH)

\* C1 amended: the scale is the smaller of the two f32 quotients, and the
\* scaled region exceeds the surface by no more than the rounding of the
\* quotient and of the product.
C1_ScaleIsMinFitsUpToRounding ==
  (Settled /\ ValidSurface) =>
    /\ ScaleIsMin
    /\ LeUpToRounding(FMul(vw, ui_scale), SurfaceW)
    /\ LeUpToRounding(FMul(vh, ui_scale), SurfaceH)

\* C1 witness: a resize handled on a surface whose two ratios differ, with the
\* vertical one applied.
C1_Witness ==
  /\ Settled /\ ValidSurface
  /\ FLt(FDiv(SurfaceH, vh), FDiv(SurfaceW, vw))
  /\ ui_scale = FDiv(SurfaceH, vh)

(***************************************************************************)
(* C2.  Exactly one axis pair of masks (Left/Right or Top/Bottom) has a    *)
(* non-zero length after a resize is handled; the other pair's length is   *)
(* clamped to zero, never negative.                                        *)
(***************************************************************************)
C2_OnePairNonZeroOtherClamped ==
  (Settled /\ ValidSurface) =>
    /\ \/ ~FEq(Left.width, PxZero) /\ ~FEq(Right.width, PxZero)
          /\ FEq(Top.height, PxZero) /\ FEq(Bottom.height, PxZero)
       \/ ~FEq(Top.height, PxZero) /\ ~FEq(Bottom.height, PxZero)
          /\ FEq(Left.width, PxZero) /\ FEq(Right.width, PxZero)
    /\ \A side \in {"Left", "Right"} : FGe(masks[side].width, PxZero)
    /\ \A side \in {"Top", "Bottom"} : FGe(masks[side].height, PxZero)

(***************************************************************************)
(* C3.  When the aspect ratios differ, the two masks on the axis with      *)
(* leftover space cover exactly the leftover space: with the content at    *)
(* [margin, margin + virtual length], the first mask (Left or Top) ends at *)
(* the content's start and reaches to or past 0, the second (Right or      *)
(* Bottom) starts at the content's end and reaches to or past the surface  *)
(* extent surface_length / uniform_scale.                                  *)
(***************************************************************************)
HorizontalLeftover == FGt(FDiv(SurfaceW, vw), FDiv(SurfaceH, vh))
VerticalLeftover == FGt(FDiv(SurfaceH, vh), FDiv(SurfaceW, vw))

\* an f32 that holds a whole number
IsWhole(a) ==
  /\ a.k = "num"
  /\ \/ a.e >= 0
     \/ a.e > -MantBits /\ a.m % TwoP(-a.e) = 0

\* the first mask of an axis: offset and length of the mask, the margin
FirstMaskCovers(offset, length, margin) ==
  /\ FEq(FAdd(offset, length), margin)
  /\ FLe(offset, PxZero)

\* the second mask reaches the surface's far edge
SecondMaskReaches(offset, length, surface) ==
  FGe(FAdd(offset, length), FDiv(surface, ui_scale))

SecondMaskStarts(offset, margin, v, surface) ==
  /\ EqUpToRounding(offset, FAdd(margin, v), FAdd(margin, v))
  /\ (IsWhole(v) /\ FLt(FDiv(surface, ui_scale), Num(0, TwoP(MantBits - 1), 0)))
       => FEq(offset, FAdd(margin, v))

C4_MarginsCenter ==
  (Settled /\ ValidSurface) =>
    /\ FEq(FAdd(FMul(Two, hud.margin_left), vw), FDiv(SurfaceW, ui_scale))
    /\ FEq(FAdd(FMul(Two, hud.margin_top), vh), FDiv(SurfaceH, ui_scale))
    /\ FGe(hud.margin_left, PxZero)
    /\ FGe(hud.margin_top, PxZero)

\* C4 amended: the two equalities hold up to rounding.
C4_MarginsCenterUpToRounding ==
  (Settled /\ ValidSurface) =>
    /\ EqUpToRounding(FAdd(FMul(Two, hud.margin_left), vw),
                      FDiv(SurfaceW, ui_scale), FDiv(SurfaceW, ui_scale))
    /\ EqUpToRounding(FAdd(FMul(Two, hud.margin_top), vh),
                      FDiv(SurfaceH, ui_scale), FDiv(SurfaceH, ui_scale))
    /\ FGe(hud.margin_left, PxZero)
    /\ FGe(hud.margin_top, PxZero)

\* C4 witness: a handled resize that left a positive margin.
C4_Witness ==
  /\ Settled /\ ValidSurface
  /\ FGt(hud.margin_top, PxZero)

(***************************************************************************)
(* C5.  When W/vw = H/vh (matching aspect ratio), handling the resize      *)
(* yields uniform_scale equal to that common ratio, all four mask lengths  *)
(* equal to 0 and both content margins equal to 0.                         *)
(***************************************************************************)
\* W/vw = H/vh in exact arithmetic, that is W*vh = H*vw: an f32 is m * 2^e,
\* so the two products are equal when their odd parts and their exponents
\* are.  The odd parts (below 2^48) are compared modulo four primes whose
\* product is above 2^48.
RECURSIVE OddPart(_)
OddPart(m) == IF m = 0 \/ m % 2 = 1 THEN m ELSE OddPart(m \div 2)
EvenExp(a) == a.e + BitLen(a.m) - BitLen(OddPart(a.m))
Moduli == {32713, 32717, 32719, 32749}
SameProduct(a, b, c, d) ==
  /\ EvenExp(a) + EvenExp(b) = EvenExp(c) + EvenExp(d)
  /\ \A p \in Moduli :
       ((OddPart(a.m) % p) * (OddPart(b.m) % p)) % p
         = ((OddPart(c.m) % p) * (OddPart(d.m) % p)) % p
MatchingAspect == SameProduct(SurfaceW, vh, SurfaceH, vw)

C5_MatchingAspectAllZero ==
  (Settled /\ ValidSurface /\ MatchingAspect) =>
    /\ ui_scale = FDiv(SurfaceW, vw)
    /\ FEq(Left.width, PxZero) /\ FEq(Right.width, PxZero)
    /\ FEq(Top.height, PxZero) /\ FEq(Bottom.height, PxZero)
    /\ FEq(hud.margin_left, PxZero) /\ FEq(hud.margin_top, PxZero)

(***************************************************************************)
(* C6.  When the vertical axis is the constraining axis (H/vh < W/vw, as   *)
(* with 960x540 on a 960x270 surface), the non-zero values appear on the   *)
(* Top/Bottom masks and content_margin.top only; the Left/Right mask       *)
(* lengths and content_margin.left are zero.                               *)
(***************************************************************************)
VerticalConstrains == FLt(FDiv(SurfaceH, vh), FDiv(SurfaceW, vw))

\* C6 as stated.
C6_VerticalConstrainsTopBottomOnly ==
  (Settled /\ ValidSurface /\ VerticalConstrains) =>
    /\ FEq(Left.width, PxZero) /\ FEq(Right.width, PxZero)
    /\ FEq(hud.margin_left, PxZero)
    /\ ~FEq(Top.height, PxZero) /\ ~FEq(Bottom.height, PxZero)
    /\ ~FEq(hud.margin_top, PxZero)

\* C6 amended: when the vertical axis constrains, the leftover space is
\* horizontal: content_margin.left is half the Left/Right length, neither is
\* negative, content_margin.top is zero and the Top/Bottom lengths are not
\* positive (they are dy, which is not clamped).
C6_VerticalConstrainsLeftRightOnly ==
  (Settled /\ ValidSurface /\ VerticalConstrains) =>
    /\ FGe(Left.width, PxZero) /\ Right.width = Left.width
    /\ hud.margin_left = FDiv(Left.width, Two)
    /\ FEq(hud.margin_top, PxZero)
    /\ FLe(Top.height, PxZero) /\ Bottom.height = Top.height

\* C6 witness: spec scenario C handled (960x540 on 960x270): Left and Right
\* are 960 wide, the left margin is 480, Top and Bottom have length -270.
C6_Witness ==
  /\ Settled
  /\ resolution = DefaultResolution
  /\ window = Vec2(<<960, 270>>)
  /\ Left.width = FromNat(960) /\ hud.margin_left = FromNat(480)
  /\ Top.height = FNeg(FromNat(270)) /\ FEq(hud.margin_top, PxZero)

(***************************************************************************)
(* C7.  A resize notification whose surface width or height is             *)
(* non-positive is skipped: the applied UI scale, content margins and mask *)
(* geometry remain those of the last valid result, and no undefined        *)
(* (division-by-zero) value is ever applied.                               *)
(***************************************************************************)
AppliedPx ==
  {ui_scale, hud.margin_left, hud.margin_top}
    \cup {masks[side].width : side \in {"Left", "Right"}}
    \cup {masks[side].left : side \in {"Left", "Right"}}
    \cup {masks[side].height : side \in {"Top", "Bottom"}}
    \cup {masks[side].top : side \in {"Top", "Bottom"}}

C7_DegenerateSurfaceSkipped ==
  [][/\ (pending > 0 /\ ~ValidSurface) =>
          (ui_scale' = ui_scale /\ hud' = hud /\ masks' = masks)
     /\ \A v \in AppliedPx' : v.k \in {"num", "auto"}]_vars

(***************************************************************************)
(* C8.  After the resize handler has run, the applied UI scale, margins    *)
(* and mask geometry are a function only of the configured resolution and  *)
(* the window's current size: not of any earlier size or result, nor of    *)
(* how many resize notifications were pending.                             *)
(***************************************************************************)
C8_AppliedDependsOnCurrentSizeOnly ==
  Settled =>
    LET w == aspect_ratio_hud_scaler(window, resolution, aspect_ratio_hud,
                                     aspect_ratio_mask_setup)
    IN  /\ ui_scale = w.ui_scale
        /\ hud = w.hud
        /\ masks = w.masks

\* C8 witness: the handler has run on a valid surface with a horizontal
\* leftover, and changed the scale.
C8_Witness ==
  /\ Settled /\ ValidSurface
  /\ FGt(Left.width, PxZero)
  /\ ui_scale # One

(***************************************************************************)
(* C9.  With dx = normalized_width - vw and dy = normalized_height - vh as *)
(* computed by the resize handler (the lengths written to the Left/Right   *)
(* and Top/Bottom masks), exactly one of dx, dy is >= 0 and the other is   *)
(* <= 0.                                                                   *)
(***************************************************************************)
AppliedDx == Left.width
AppliedDy == Top.height

EqualScales == FEq(FDiv(SurfaceW, vw), FDiv(SurfaceH, vh))

\* C9 as stated.
C9_ExactlyOneNonNegative ==
  (Settled /\ ValidSurface) =>
    \/ FGe(AppliedDx, PxZero) /\ ~FGe(AppliedDy, PxZero) /\ FLe(AppliedDy, PxZero)
    \/ FGe(AppliedDy, PxZero) /\ ~FGe(AppliedDx, PxZero) /\ FLe(AppliedDx, PxZero)

\* C9 amended: when the two scales (the f32 quotients W/vw and H/vh) differ,
\* the one of dx, dy on the axis of the larger scale is >= 0 and the other is
\* <= 0; when they are equal, both are zero up to rounding, of either sign.
C9_OppositeSignsUnlessMatching ==
  (Settled /\ ValidSurface) =>
    /\ HorizontalLeftover => FGe(AppliedDx, PxZero) /\ FLe(AppliedDy, PxZero)
    /\ VerticalLeftover => FGe(AppliedDy, PxZero) /\ FLe(AppliedDx, PxZero)
    /\ EqualScales =>
         /\ FLe(FAbs(AppliedDx), RoundingOf(vw))
         /\ FLe(FAbs(AppliedDy), RoundingOf(vh))

\* C9 witness: spec scenario B handled: dx = 320 and dy = -135.
C9_Witness ==
  /\ Settled
  /\ resolution = DefaultResolution
  /\ window = Vec2(<<1280, 540>>)
  /\ AppliedDx = FromNat(320)
  /\ AppliedDy = FNeg(FromNat(135))

(***************************************************************************)
(* C10.  The margins and all mask widths, heights and offsets depend only  *)
(* on the surface's aspect ratio, not on its size: for every factor k > 0, *)
(* handling a resize to (k*W, k*H) yields the same margins and the same    *)
(* geometry for all four masks as a resize to (W, H), while the uniform    *)
(* scale is multiplied by k.                                               *)
(***************************************************************************)
\* sz is the window's size times k on both axes (k = sz.x / window.x)
IsMultipleOfWindow(sz, k) ==
  /\ FGt(sz.x, PxZero) /\ FGt(sz.y, PxZero)
  /\ k = FDiv(sz.x, SurfaceW)
  /\ FMul(k, SurfaceW) = sz.x
  /\ FMul(k, SurfaceH) = sz.y
  /\ FMul(sz.x, SurfaceH) = FMul(sz.y, SurfaceW)

\* a power of two
IsPowerOfTwo(k) == k.k = "num" /\ k.m = TwoP(MantBits - 1)

SameMask(a, b) ==
  /\ a.width.k = b.width.k /\ (IsPx(a.width) => FEq(a.width, b.width))
  /\ a.height.k = b.height.k /\ (IsPx(a.height) => FEq(a.height, b.height))
  /\ a.left.k = b.left.k /\ (IsPx(a.left) => FEq(a.left, b.left))
  /\ a.top.k = b.top.k /\ (IsPx(a.top) => FEq(a.top, b.top))

\* what the handler yields for the size sz: the applied geometry, and the
\* applied scale times k
SameGeometryScaledBy(sz, k) ==
  LET w == aspect_ratio_hud_scaler(sz, resolution, hud, masks)
  IN  /\ FEq(w.hud.margin_left, hud.margin_left)
      /\ FEq(w.hud.margin_top, hud.margin_top)
      /\ \A side \in Sides : SameMask(w.masks[side], masks[side])
      /\ FEq(w.ui_scale, FMul(k, ui_scale))

\* C10 as stated.
C10_GeometryDependsOnAspectOnly ==
  (Settled /\ ValidSurface) =>
    \A sz \in Surfaces :
      LET k == FDiv(sz.x, SurfaceW)
      IN  IsMultipleOfWindow(sz, k) => SameGeometryScaledBy(sz, k)

\* two masks equal up to rounding, relative to the surface's extent in
\* virtual pixels on each axis
SameMaskUpToRounding(a, b, extw, exth) ==
  /\ a.width.k = b.width.k /\ (IsPx(a.width) => EqUpToRounding(a.width, b.width, extw))
  /\ a.height.k = b.height.k /\ (IsPx(a.height) => EqUpToRounding(a.height, b.height, exth))
  /\ a.left.k = b.left.k /\ (IsPx(a.left) => EqUpToRounding(a.left, b.left, extw))
  /\ a.top.k = b.top.k /\ (IsPx(a.top) => EqUpToRounding(a.top, b.top, exth))

SameGeometryUpToRounding(sz, k) ==
  LET w == aspect_ratio_hud_scaler(sz, resolution, hud, masks)
      extw == FDiv(SurfaceW, ui_scale)
      exth == FDiv(SurfaceH, ui_scale)
  IN  /\ EqUpToRounding(w.hud.margin_left, hud.margin_left, extw)
      /\ EqUpToRounding(w.hud.margin_top, hud.margin_top, exth)
      /\ \A side \in Sides :
           SameMaskUpToRounding(w.masks[side], masks[side], extw, exth)
      /\ EqUpToRounding(w.ui_scale, FMul(k, ui_scale), FMul(k, ui_scale))

\* C10 amended: for every factor k the geometry is the same up to rounding,
\* and it is the same exactly when k is a power of two.
C10_GeometrySameUpToRounding ==
  (Settled /\ ValidSurface) =>
    \A sz \in Surfaces :
      LET k == FDiv(sz.x, SurfaceW)
      IN  IsMultipleOfWindow(sz, k) =>
            /\ SameGeometryUpToRounding(sz, k)
            /\ IsPowerOfTwo(k) => SameGeometryScaledBy(sz, k)

\* C10 witness: a resize to 1x2 handled with a vertical leftover; 2x4 is the
\* same surface scaled by two.
C10_Witness ==
  /\ Settled
  /\ window = Vec2(<<1, 2>>)
  /\ Vec2(<<2, 4>>) \in Surfaces
  /\ IsMultipleOfWindow(Vec2(<<2, 4>>), Two)
  /\ FGt(Top.height, PxZero)
=============================================================================
